---- MODULE Spec2Model ----
(***************************************************************************)
(* Garden tracker: the seed / seedling / plant inventory ledger of app.py  *)
(* and the calculation rules of models.py, as a state machine over the     *)
(* database tables.  A request handler is one atomic action: it reads the  *)
(* form, changes rows and commits, or aborts (404 / 500) changing nothing. *)
(*                                                                         *)
(* Encoding.  A nullable column or an optional form field is a set with at *)
(* most one element: {} is None / field absent, {v} is the value v.  A     *)
(* date is its day number (date.toordinal), a timedelta a number of days.  *)
(* A table is a function from primary keys to rows.  flashed is the       *)
(* 'Cannot delete' message the last delete request flashed, reduced to    *)
(* what it is about and the count it tells, {} when the request deleted;  *)
(* the messages of the other handlers carry no count and are left out.     *)
(***************************************************************************)
EXTENDS Integers, Sequences, FiniteSets, TLC

VARIABLES seeds, seedlings, plants, hydro_plants, grow_bags, calc, flashed

vars == <<seeds, seedlings, plants, hydro_plants, grow_bags, calc, flashed>>

store == <<seeds, seedlings, plants, hydro_plants, grow_bags>>

(***************************************************************************)
(* Bounds of the model                                                     *)
(***************************************************************************)
\* rows of the plants and hydro_plants tables, together
MaxPlants == 2

\* the largest container volume asked of the capacity table, in gallons
MaxGallons == 27

\* the largest weeks_to_transplant of a seed
MaxWeeks == 8

\* the largest num_bags and plants_per_bag of a plan item
MaxNumBags == 7

MaxPerBag == 3

MaxOversown == 1

\* how far below 0 the model follows the current_plants of a grow bag
MaxUndercount == 1

(***************************************************************************)
(* Python values                                                           *)
(***************************************************************************)
None == {}

Some(v) == {v}

Val(x) == CHOOSE v \in x : TRUE

\* bool(x) of an optional integer: None and 0 are falsy
Truthy(x) == x # {} /\ x # {0}

\* x or d, for an optional integer x and an integer d
OrElse(x, d) == IF Truthy(x) THEN Val(x) ELSE d

Max(a, b) == IF a >= b THEN a ELSE b

\* timedelta(weeks=w), in days
Weeks(w) == 7 * w

(***************************************************************************)
(* Tables                                                                  *)
(***************************************************************************)
EmptyTable == [i \in {} |-> 0]

\* the primary key of the next inserted row
NextId(t) ==
    IF DOMAIN t = {} THEN 1
    ELSE (CHOOSE i \in DOMAIN t : \A j \in DOMAIN t : j <= i) + 1

\* db.session.add(row), n times
InsertN(t, row, n) ==
    [i \in DOMAIN t \cup (NextId(t) .. (NextId(t) + n - 1)) |->
        IF i \in DOMAIN t THEN t[i] ELSE row]

Insert(t, row) == InsertN(t, row, 1)

Rows(t) == Cardinality(DOMAIN t)

PlantRows == Rows(plants) + Rows(hydro_plants)

(***************************************************************************)
(* Inputs of the requests                                                  *)
(***************************************************************************)
\* the logged-in users who send requests
Users == {"u1"}

\* primary keys a request may name: the row the model follows in each of
\* the seeds, seedlings and grow_bags tables, and a key no row has
IdInputs == {1, 2}

\* the primary keys of the rows the model follows
Followed == {1}

OptIdInputs == {None} \cup {Some(i) : i \in IdInputs}

\* the seed form: quantity, days_to_maturity and weeks_to_transplant as typed
\* (None: the field left empty)
SeedForms ==
    { [quantity |-> 2, days_to_maturity |-> Some(3), weeks_to_transplant |-> None],
      [quantity |-> 2, days_to_maturity |-> None,    weeks_to_transplant |-> Some(1)],
      [quantity |-> 0, days_to_maturity |-> Some(0), weeks_to_transplant |-> Some(0)] }

\* the sowing form
SeedlingForms ==
    { [sown_date |-> 1, germination_date |-> None,    quantity_started |-> 3, quantity_viable |-> None],
      [sown_date |-> 1, germination_date |-> Some(2), quantity_started |-> 3, quantity_viable |-> Some(2)] }

Statuses == {"germinating", "growing", "potted_up", "ready", "transplanted", "failed"}

\* the seedling update form; its status field is free text to the server
UpdateForms ==
    { [status |-> "growing",     quantity_viable |-> None,    germination_date |-> Some(2)],
      [status |-> "ready",       quantity_viable |-> Some(1), germination_date |-> None],
      [status |-> "failed",      quantity_viable |-> None,    germination_date |-> None],
      [status |-> "dead",        quantity_viable |-> None,    germination_date |-> None] }

\* the seedling update forms, with the one that records a germination date
\* and repeats the status 'germinating'
GerminationForms ==
    UpdateForms \cup
    { [status |-> "germinating", quantity_viable |-> None, germination_date |-> Some(2)] }

\* the pot-up form
PotUpForms ==
    { [potted_up_date |-> 3, pot_size |-> Some("4 inch"), quantity_potted_up |-> None],
      [potted_up_date |-> 3, pot_size |-> Some("4 inch"), quantity_potted_up |-> Some(2)] }

BagForms == { [size_gallons |-> 5, max_plants |-> 1] }

TransplantDates == {4}

PlantQuantities == {0, 1, 2}

(***************************************************************************)
(* models.py: the date rules of a seed                                     *)
(***************************************************************************)
\* Seed.calculate_seed_start_date
calculate_seed_start_date(seed, transplant_date) ==
    LET weeks_before == OrElse(seed.weeks_to_transplant, 6)
    IN  transplant_date - Weeks(weeks_before)

\* Seed.calculate_harvest_date
calculate_harvest_date(seed, transplant_date) ==
    IF Truthy(seed.days_to_maturity)
    THEN Some(transplant_date + Val(seed.days_to_maturity))
    ELSE None

(***************************************************************************)
(* models.py: GrowBag.calculate_capacity                                   *)
(***************************************************************************)
\* the capacity dict of calculate_capacity
capacity ==
    [compact |-> (1 :> 1 @@ 2 :> 2 @@ 3 :> 3 @@ 5 :> 5 @@ 7 :> 7 @@ 10 :> 10
                    @@ 15 :> 15 @@ 20 :> 20 @@ 25 :> 25),
     medium  |-> (1 :> 0 @@ 2 :> 0 @@ 3 :> 1 @@ 5 :> 1 @@ 7 :> 2 @@ 10 :> 2
                    @@ 15 :> 3 @@ 20 :> 4 @@ 25 :> 5),
     large   |-> (1 :> 0 @@ 2 :> 0 @@ 3 :> 0 @@ 5 :> 0 @@ 7 :> 1 @@ 10 :> 1
                    @@ 15 :> 1 @@ 20 :> 2 @@ 25 :> 2)]

\* min(S), max(S) of a non-empty set of integers
MinOf(S) == CHOOSE x \in S : \A y \in S : x <= y

MaxOf(S) == CHOOSE x \in S : \A y \in S : y <= x

\* sorted(S)
RECURSIVE sorted(_)
sorted(S) == IF S = {} THEN <<>> ELSE <<MinOf(S)>> \o sorted(S \ {MinOf(S)})

\* the for loop of calculate_capacity, from the i-th size on
RECURSIVE capacity_scan(_, _, _, _)
capacity_scan(size_map, sizes, size_gallons, i) ==
    IF i > Len(sizes) THEN size_map[MaxOf(DOMAIN size_map)]
    ELSE IF size_gallons <= sizes[i] THEN size_map[sizes[i]]
    ELSE capacity_scan(size_map, sizes, size_gallons, i + 1)

\* calculate_capacity with the loop's test written size_gallons < size
RECURSIVE capacity_scan_strict(_, _, _, _)
capacity_scan_strict(size_map, sizes, size_gallons, i) ==
    IF i > Len(sizes) THEN size_map[MaxOf(DOMAIN size_map)]
    ELSE IF size_gallons < sizes[i] THEN size_map[sizes[i]]
    ELSE capacity_scan_strict(size_map, sizes, size_gallons, i + 1)

calculate_capacity_strict(size_gallons, plant_size_category) ==
    LET size_map == IF plant_size_category \in DOMAIN capacity
                    THEN capacity[plant_size_category] ELSE capacity["medium"]
        sizes == sorted(DOMAIN size_map)
    IN  capacity_scan_strict(size_map, sizes, size_gallons, 1)

calculate_capacity(size_gallons, plant_size_category) ==
    LET size_map == IF plant_size_category \in DOMAIN capacity
                    THEN capacity[plant_size_category] ELSE capacity["medium"]
        sizes == sorted(DOMAIN size_map)
    IN  capacity_scan(size_map, sizes, size_gallons, 1)

(***************************************************************************)
(* Python float: IEEE 754 binary64, round to nearest, ties to even.  A     *)
(* positive float is [m, e], its value m * 2^e with 2^52 <= m < 2^53; m is *)
(* the pair <<hi, lo>> of 27-bit limbs, m = hi * 2^27 + lo.                *)
(***************************************************************************)
Limb == 134217728

Pow2(k) == 2 ^ k

LimbDouble(x) == <<2 * x[1] + (2 * x[2]) \div Limb, (2 * x[2]) % Limb>>

LimbGeq(x, y) == x[1] > y[1] \/ (x[1] = y[1] /\ x[2] >= y[2])

LimbSub(x, y) ==
    IF x[2] >= y[2] THEN <<x[1] - y[1], x[2] - y[2]>>
                    ELSE <<x[1] - y[1] - 1, x[2] + Limb - y[2]>>

LimbInc(x) == IF x[2] + 1 = Limb THEN <<x[1] + 1, 0>> ELSE <<x[1], x[2] + 1>>

\* n.bit_length() of an integer 1 <= n < 2^27
BitLength(n) == CHOOSE k \in 1 .. 27 : Pow2(k - 1) <= n /\ n < Pow2(k)

\* float(n) of an integer 1 <= n < 2^27: exact, n shifted left until it has
\* 53 bits
float(n) ==
    LET shift == 53 - BitLength(n)
    IN  [m |-> IF shift >= 27 THEN <<n * Pow2(shift - 27), 0>>
                              ELSE <<n \div 2, (n % 2) * Pow2(26)>>,
         e |-> 0 - shift]

\* one step of the long division by s.d: the next bit of the quotient s.q,
\* and the remainder s.r
DivStep(s) ==
    LET r2 == LimbDouble(s.r)
        q2 == LimbDouble(s.q)
    IN  IF LimbGeq(r2, s.d) THEN [s EXCEPT !.q = LimbInc(q2), !.r = LimbSub(r2, s.d)]
                            ELSE [s EXCEPT !.q = q2, !.r = r2]

\* the long division 4 * k steps after s, as a one element set: a step is
\* taken from the value the step before it has left
RECURSIVE DivBits(_, _)
DivBits(s, k) ==
    IF k = 0 THEN {s}
    ELSE {DivStep(t4) : t4 \in {DivStep(t3) : t3 \in {DivStep(t2) : t2 \in
            {DivStep(t1) : t1 \in DivBits(s, k - 1)}}}}

\* x / y of two positive floats, x and y the values of the operands
Quotient(x, y) ==
    LET first == LimbGeq(x.m, y.m)
        \* the quotient of the mantissas is in [1, 2) or in (1/2, 1)
        start == IF first THEN LimbSub(x.m, y.m) ELSE LimbSub(LimbDouble(x.m), y.m)
        e == x.e - y.e - 52 - (IF first THEN 0 ELSE 1)
    IN  \* the first bit is 1; 52 = 4 * 13 more
        CHOOSE out \in
            {LET twice == LimbDouble(bits.r)
                 up == \/ (LimbGeq(twice, y.m) /\ twice # y.m)
                       \/ (twice = y.m /\ bits.q[2] % 2 = 1)
                 q == IF up THEN LimbInc(bits.q) ELSE bits.q
             IN  IF q[1] >= Pow2(26) THEN [m |-> <<Pow2(25), 0>>, e |-> e + 1]
                                     ELSE [m |-> q, e |-> e] :
             bits \in DivBits([q |-> <<0, 1>>, r |-> start, d |-> y.m], 13)} : TRUE

\* a / b of two positive floats; the operands are evaluated first
truediv(a, b) == CHOOSE out \in {Quotient(x, y) : x \in {a}, y \in {b}} : TRUE

\* math.ceil(x) of a positive float below 2^31
ceil(x) ==
    LET s == 0 - x.e
    IN  IF s <= 0 THEN (x.m[1] * Limb + x.m[2]) * Pow2(0 - s)
        ELSE IF s >= 53 THEN 1
        ELSE IF s >= 27
        THEN x.m[1] \div Pow2(s - 27)
             + (IF x.m[1] % Pow2(s - 27) # 0 \/ x.m[2] # 0 THEN 1 ELSE 0)
        ELSE x.m[1] * Pow2(27 - s) + x.m[2] \div Pow2(s)
             + (IF x.m[2] % Pow2(s) # 0 THEN 1 ELSE 0)

(***************************************************************************)
(* models.py: PlantingPlanItem                                             *)
(***************************************************************************)
\* PlantingPlanItem.total_plants_needed
total_plants_needed(item) == item.num_bags * item.plants_per_bag

\* PlantingPlanItem.seeds_to_start; germination_rate is the seed's, a float
\* holding a whole number of percent
seeds_to_start(item, germination_rate) ==
    LET total == total_plants_needed(item)
    IN  IF Truthy(germination_rate) /\ Val(germination_rate) > 0
        THEN ceil(truediv(float(total), truediv(float(Val(germination_rate)), float(100))))
        ELSE total * 2

\* PlantingPlanItem.get_seed_start_date; seed is the item's seed
get_seed_start_date(item, seed, last_frost_date) ==
    IF item.is_direct_sow
    THEN last_frost_date + Weeks(2)
    ELSE LET weeks == OrElse(seed.weeks_to_transplant, 6)
         IN  last_frost_date - Weeks(weeks)

(***************************************************************************)
(* app.py: seed inventory                                                  *)
(***************************************************************************)
\* Seed.query.filter_by(id=seed_id, user_id=current_user.id).first_or_404()
OwnSeed(u, seed_id) == seed_id \in DOMAIN seeds /\ seeds[seed_id].user_id = u

\* the Seed row seed_add builds from the form
NewSeed(u, form) ==
    [user_id |-> u,
     quantity |-> form.quantity,
     days_to_maturity |-> form.days_to_maturity,
     weeks_to_transplant |->
         IF form.weeks_to_transplant # None
         THEN form.weeks_to_transplant ELSE Some(6)]

seed_add(u, form) ==
    /\ NextId(seeds) \in Followed
    /\ seeds' = Insert(seeds, NewSeed(u, form))
    /\ UNCHANGED <<seedlings, plants, hydro_plants, grow_bags, calc, flashed>>

\* seed_add where the model follows two rows of the seeds table
seed_add_any(u, form) ==
    /\ NextId(seeds) \in IdInputs
    /\ seeds' = Insert(seeds, NewSeed(u, form))
    /\ UNCHANGED <<seedlings, plants, hydro_plants, grow_bags, calc, flashed>>

(***************************************************************************)
(* app.py: seedlings                                                       *)
(***************************************************************************)
\* Seedling.query.filter_by(id=seedling_id, user_id=current_user.id).first_or_404()
OwnSeedling(u, seedling_id) ==
    seedling_id \in DOMAIN seedlings /\ seedlings[seedling_id].user_id = u

\* the Seedling row seedling_add builds from the form
NewSeedling(u, seed_id, form) ==
    [user_id |-> u,
     seed_id |-> seed_id,
     germination_date |-> form.germination_date,
     quantity_started |-> form.quantity_started,
     quantity_viable |->
         IF form.quantity_viable # None THEN form.quantity_viable
                                        ELSE Some(form.quantity_started),
     expected_transplant_date |->
         Some(form.sown_date + Weeks(Val(seeds[seed_id].weeks_to_transplant))),
     actual_transplant_date |-> None,
     potted_up_date |-> None,
     pot_size |-> None,
     quantity_potted_up |-> None,
     status |-> IF form.germination_date # None THEN "growing" ELSE "germinating"]

\* seed.quantity -= seedling.quantity_started
SowDecrement(quantity, quantity_started) == quantity - quantity_started

seedling_add(u, seed_id, form) ==
    IF ~OwnSeed(u, seed_id)
    THEN UNCHANGED vars                                   \* 404
    ELSE /\ NextId(seedlings) \in Followed
         /\ seeds' = [seeds EXCEPT ![seed_id].quantity =
                         SowDecrement(@, NewSeedling(u, seed_id, form).quantity_started)]
         /\ seedlings' = Insert(seedlings, NewSeedling(u, seed_id, form))
         /\ UNCHANGED <<plants, hydro_plants, grow_bags, calc, flashed>>

\* the status after a status, in the order of the life cycle
NextStatus(status) ==
    CASE status = "germinating" -> "growing"
      [] status = "growing" -> "potted_up"
      [] status = "potted_up" -> "ready"
      [] status = "ready" -> "transplanted"
      [] OTHER -> status

\* seedling_update's assignments, moving the batch one status on when a
\* germination date is recorded
seedling_update_fields_advance(seedling, form) ==
    [seedling EXCEPT !.status = IF form.germination_date # None
                                 THEN NextStatus(seedling.status) ELSE form.status,
                     !.quantity_viable =
                         IF form.quantity_viable # None THEN form.quantity_viable ELSE @,
                     !.germination_date =
                         IF form.germination_date # None THEN form.germination_date ELSE @]

\* seedling_update's assignments to the row
seedling_update_fields(seedling, form) ==
    [seedling EXCEPT !.status = form.status,
                     !.quantity_viable =
                         IF form.quantity_viable # None THEN form.quantity_viable ELSE @,
                     !.germination_date =
                         IF form.germination_date # None THEN form.germination_date ELSE @]

seedling_update(u, seedling_id, form) ==
    IF ~OwnSeedling(u, seedling_id)
    THEN UNCHANGED vars                                   \* 404
    ELSE /\ seedlings' = [seedlings EXCEPT ![seedling_id] = seedling_update_fields(@, form)]
         /\ UNCHANGED <<seeds, plants, hydro_plants, grow_bags, calc, flashed>>

\* seedling_pot_up with quantity_started as the default of quantity_potted_up
seedling_pot_up_started(u, seedling_id, form) ==
    IF ~OwnSeedling(u, seedling_id)
    THEN UNCHANGED vars
    ELSE /\ seedlings' = [seedlings EXCEPT ![seedling_id] =
               [@ EXCEPT !.status = "potted_up",
                         !.potted_up_date = Some(form.potted_up_date),
                         !.pot_size = form.pot_size,
                         !.quantity_potted_up =
                             IF form.quantity_potted_up # None
                             THEN form.quantity_potted_up
                             ELSE Some(seedlings[seedling_id].quantity_started)]]
         /\ UNCHANGED <<seeds, plants, hydro_plants, grow_bags, calc, flashed>>

seedling_pot_up(u, seedling_id, form) ==
    IF ~OwnSeedling(u, seedling_id)
    THEN UNCHANGED vars                                   \* 404
    ELSE IF form.quantity_potted_up = None /\ seedlings[seedling_id].quantity_viable = None
    THEN UNCHANGED vars                                   \* int(None): 500, rolled back
    ELSE /\ seedlings' = [seedlings EXCEPT ![seedling_id] =
               [@ EXCEPT !.status = "potted_up",
                         !.potted_up_date = Some(form.potted_up_date),
                         !.pot_size = form.pot_size,
                         !.quantity_potted_up =
                             IF form.quantity_potted_up # None
                             THEN form.quantity_potted_up
                             ELSE seedlings[seedling_id].quantity_viable]]
         /\ UNCHANGED <<seeds, plants, hydro_plants, grow_bags, calc, flashed>>

(***************************************************************************)
(* app.py: grow bags                                                       *)
(***************************************************************************)
growbag_add(u, form) ==
    /\ NextId(grow_bags) \in Followed
    /\ grow_bags' = Insert(grow_bags,
                      [user_id |-> u,
                       size_gallons |-> form.size_gallons,
                       max_plants |-> form.max_plants,
                       current_plants |-> 0])
    /\ UNCHANGED <<seeds, seedlings, plants, hydro_plants, calc, flashed>>

(***************************************************************************)
(* The available space of the grow bags, as the pages report it            *)
(***************************************************************************)
\* GrowBag.available_space
available_space(bag) == bag.max_plants - bag.current_plants

\* func.sum(GrowBag.max_plants - GrowBag.current_plants) over the rows S
RECURSIVE SumSpace(_)
SumSpace(S) ==
    IF S = {} THEN 0
    ELSE LET b == CHOOSE x \in S : TRUE
         IN  (grow_bags[b].max_plants - grow_bags[b].current_plants) + SumSpace(S \ {b})

\* index: the dashboard's available_space of user u; the sum over no row is
\* NULL, and NULL or 0 is 0
index_available_space(u) ==
    LET rows == {b \in DOMAIN grow_bags : grow_bags[b].user_id = u}
    IN  IF rows = {} THEN 0 ELSE SumSpace(rows)

\* the status values api_growbag_capacity counts
ActiveStatuses == {"growing", "flowering", "producing"}

\* api_growbag_capacity's available_space, for a grow bag of the user and
\* the size_category of the seed
api_available_space(growbag_id, size_category) ==
    LET max_capacity == calculate_capacity(grow_bags[growbag_id].size_gallons, size_category)
        current_count == Cardinality({p \in DOMAIN plants :
                                         /\ plants[p].grow_bag_id = Some(growbag_id)
                                         /\ plants[p].status \in ActiveStatuses})
    IN  Max(0, max_capacity - current_count)

(***************************************************************************)
(* app.py: plants                                                          *)
(***************************************************************************)
\* plant_add's consumption as it was before potting up was tracked: always
\* drawn from quantity_viable
plant_add_consume_viable(seedling, quantity, transplant_date) ==
    LET available == OrElse(seedling.quantity_viable, 0)
        remaining == available - quantity
        counted == [seedling EXCEPT !.quantity_viable = Some(Max(0, remaining))]
    IN  IF remaining <= 0
        THEN [counted EXCEPT !.status = "transplanted",
                             !.actual_transplant_date = Some(transplant_date)]
        ELSE counted

\* plant_add's consumption marking the batch transplanted only when
\* remaining < 0
plant_add_consume_strict(seedling, quantity, transplant_date) ==
    LET available == OrElse(seedling.quantity_potted_up,
                            OrElse(seedling.quantity_viable, 0))
        remaining == available - quantity
        counted ==
            IF Truthy(seedling.quantity_potted_up)
            THEN [seedling EXCEPT !.quantity_potted_up = Some(Max(0, remaining))]
            ELSE [seedling EXCEPT !.quantity_viable = Some(Max(0, remaining))]
    IN  IF remaining < 0
        THEN [counted EXCEPT !.status = "transplanted",
                             !.actual_transplant_date = Some(transplant_date)]
        ELSE counted

\* plant_add, "Update seedling - decrement available count"
plant_add_consume(seedling, quantity, transplant_date) ==
    LET available == OrElse(seedling.quantity_potted_up,
                            OrElse(seedling.quantity_viable, 0))
        remaining == available - quantity
        counted ==
            IF Truthy(seedling.quantity_potted_up)
            THEN [seedling EXCEPT !.quantity_potted_up = Some(Max(0, remaining))]
            ELSE [seedling EXCEPT !.quantity_viable = Some(Max(0, remaining))]
    IN  IF remaining <= 0
        THEN [counted EXCEPT !.status = "transplanted",
                             !.actual_transplant_date = Some(transplant_date)]
        ELSE counted

\* the Plant row plant_add builds
NewPlant(u, seed_id, seedling_id, grow_bag_id, transplant_date) ==
    [user_id |-> u,
     seed_id |-> seed_id,
     seedling_id |-> seedling_id,
     grow_bag_id |-> grow_bag_id,
     transplant_date |-> transplant_date,
     expected_harvest_date |->
         IF Truthy(seeds[seed_id].days_to_maturity)
         THEN calculate_harvest_date(seeds[seed_id], transplant_date)
         ELSE None,
     first_harvest_date |-> None,
     last_harvest_date |-> None,
     status |-> "growing"]

\* plant_add committing the new plants before it looks up the grow bag and
\* the seedling batch
plant_add_partial(u, seed_id, transplant_date, quantity, seedling_id, grow_bag_id) ==
    IF ~OwnSeed(u, seed_id)
    THEN UNCHANGED vars
    ELSE /\ PlantRows + quantity <= MaxPlants
         /\ plants' = InsertN(plants,
                              NewPlant(u, seed_id, seedling_id, grow_bag_id, transplant_date),
                              quantity)
         /\ IF \/ (grow_bag_id # None /\ Val(grow_bag_id) \notin DOMAIN grow_bags)
               \/ (seedling_id # None /\ Val(seedling_id) \notin DOMAIN seedlings)
            THEN UNCHANGED <<grow_bags, seedlings>>
            ELSE /\ grow_bags' =
                       IF grow_bag_id # None
                       THEN [grow_bags EXCEPT ![Val(grow_bag_id)].current_plants = @ + quantity]
                       ELSE grow_bags
                 /\ seedlings' =
                       IF seedling_id # None
                       THEN [seedlings EXCEPT ![Val(seedling_id)] =
                                plant_add_consume(@, quantity, transplant_date)]
                       ELSE seedlings
         /\ UNCHANGED <<seeds, hydro_plants, calc, flashed>>

\* plant_add filling the grow bag up to max_plants and no further
plant_add_capped(u, seed_id, transplant_date, quantity, seedling_id, grow_bag_id) ==
    IF ~OwnSeed(u, seed_id)
    THEN UNCHANGED vars
    ELSE IF \/ (grow_bag_id # None /\ Val(grow_bag_id) \notin DOMAIN grow_bags)
            \/ (seedling_id # None /\ Val(seedling_id) \notin DOMAIN seedlings)
    THEN UNCHANGED vars
    ELSE /\ PlantRows + quantity <= MaxPlants
         /\ plants' = InsertN(plants,
                              NewPlant(u, seed_id, seedling_id, grow_bag_id, transplant_date),
                              quantity)
         /\ grow_bags' =
               IF grow_bag_id # None
               THEN [grow_bags EXCEPT ![Val(grow_bag_id)].current_plants =
                        IF @ + quantity <= grow_bags[Val(grow_bag_id)].max_plants
                        THEN @ + quantity
                        ELSE Max(@, grow_bags[Val(grow_bag_id)].max_plants)]
               ELSE grow_bags
         /\ seedlings' =
               IF seedling_id # None
               THEN [seedlings EXCEPT ![Val(seedling_id)] =
                        plant_add_consume(@, quantity, transplant_date)]
               ELSE seedlings
         /\ UNCHANGED <<seeds, hydro_plants, calc, flashed>>

plant_add(u, seed_id, transplant_date, quantity, seedling_id, grow_bag_id) ==
    IF ~OwnSeed(u, seed_id)
    THEN UNCHANGED vars                                   \* 404
    ELSE IF \/ (grow_bag_id # None /\ Val(grow_bag_id) \notin DOMAIN grow_bags)
            \/ (seedling_id # None /\ Val(seedling_id) \notin DOMAIN seedlings)
    THEN UNCHANGED vars                 \* GrowBag / Seedling.query.get is None: 500, rolled back
    ELSE /\ PlantRows + quantity <= MaxPlants
         /\ plants' = InsertN(plants,
                              NewPlant(u, seed_id, seedling_id, grow_bag_id, transplant_date),
                              quantity)
         /\ grow_bags' =
               IF grow_bag_id # None
               THEN [grow_bags EXCEPT ![Val(grow_bag_id)].current_plants = @ + quantity]
               ELSE grow_bags
         /\ seedlings' =
               IF seedling_id # None
               THEN [seedlings EXCEPT ![Val(seedling_id)] =
                        plant_add_consume(@, quantity, transplant_date)]
               ELSE seedlings
         /\ UNCHANGED <<seeds, hydro_plants, calc, flashed>>

(***************************************************************************)
(* app.py: hydroponic plants                                               *)
(***************************************************************************)
\* hydro_plant_add's consumption always drawn from quantity_viable
hydro_plant_add_consume_viable(seedling, transplant_date) ==
    LET available == OrElse(seedling.quantity_viable, 0)
        remaining == available - 1
        counted == [seedling EXCEPT !.quantity_viable = Some(Max(0, remaining))]
    IN  IF remaining <= 0
        THEN [counted EXCEPT !.status = "transplanted",
                             !.actual_transplant_date = Some(transplant_date)]
        ELSE counted

\* hydro_plant_add, "Update seedling status"
hydro_plant_add_consume(seedling, transplant_date) ==
    LET available == OrElse(seedling.quantity_potted_up,
                            OrElse(seedling.quantity_viable, 0))
        remaining == available - 1
        counted ==
            IF Truthy(seedling.quantity_potted_up)
            THEN [seedling EXCEPT !.quantity_potted_up = Some(Max(0, remaining))]
            ELSE [seedling EXCEPT !.quantity_viable = Some(Max(0, remaining))]
    IN  IF remaining <= 0
        THEN [counted EXCEPT !.status = "transplanted",
                             !.actual_transplant_date = Some(transplant_date)]
        ELSE counted

hydro_plant_add(u, seed_id, seedling_id, transplant_date) ==
    IF seedling_id # None /\ Val(seedling_id) \notin DOMAIN seedlings
    THEN UNCHANGED vars                          \* Seedling.query.get is None: 500, rolled back
    ELSE /\ PlantRows < MaxPlants
         /\ hydro_plants' = Insert(hydro_plants,
                              [user_id |-> u,
                               seed_id |-> seed_id,
                               seedling_id |-> seedling_id,
                               transplant_date |-> transplant_date,
                               status |-> "growing"])
         /\ seedlings' =
               IF seedling_id # None
               THEN [seedlings EXCEPT ![Val(seedling_id)] =
                        hydro_plant_add_consume(@, transplant_date)]
               ELSE seedlings
         /\ UNCHANGED <<seeds, plants, grow_bags, calc, flashed>>

(***************************************************************************)
(* The ledger: any user sends any request                                  *)
(***************************************************************************)
\* no calculation asked
NoCalc ==
    [req |-> "none", done |-> TRUE, size_gallons |-> 0, category |-> "",
     weeks_to_transplant |-> None, days_to_maturity |-> None, germination_rate |-> None,
     date |-> 0, num_bags |-> 0, plants_per_bag |-> 0, out |-> None]

Init ==
    /\ seeds = EmptyTable
    /\ seedlings = EmptyTable
    /\ plants = EmptyTable
    /\ hydro_plants = EmptyTable
    /\ grow_bags = EmptyTable
    /\ calc = NoCalc
    /\ flashed = None

Next ==
    \/ \E u \in Users, form \in SeedForms : seed_add(u, form)
    \/ \E u \in Users, s \in IdInputs, form \in SeedlingForms : seedling_add(u, s, form)
    \/ \E u \in Users, s \in IdInputs, form \in UpdateForms : seedling_update(u, s, form)
    \/ \E u \in Users, s \in IdInputs, form \in PotUpForms : seedling_pot_up(u, s, form)
    \/ \E u \in Users, form \in BagForms : growbag_add(u, form)
    \/ \E u \in Users, s \in IdInputs, d \in TransplantDates, n \in PlantQuantities,
          sl \in OptIdInputs, b \in OptIdInputs : plant_add(u, s, d, n, sl, b)
    \/ \E u \in Users, sl \in OptIdInputs, d \in TransplantDates :
          hydro_plant_add(u, None, sl, d)

Spec == Init /\ [][Next]_vars

(***************************************************************************)
(* The calculation rules applied to one input                              *)
(***************************************************************************)
Categories == {"compact", "medium", "large", "dwarf"}

\* 2024-04-15 and 2024-04-29 as day numbers
CalcDates == {738991, 739005}

WeeksInputs == {None} \cup {Some(w) : w \in 0 .. MaxWeeks}

DaysInputs == {None, Some(0), Some(1), Some(78)}

RateInputs == {None, Some(0), Some(35), Some(50), Some(70), Some(80), Some(100)}

CalcInputs ==
    {[NoCalc EXCEPT !.req = "calculate_capacity", !.done = FALSE,
                    !.size_gallons = v, !.category = c] :
        v \in 1 .. MaxGallons, c \in Categories}
    \cup
    {[NoCalc EXCEPT !.req = "calculate_seed_start_date", !.done = FALSE,
                    !.weeks_to_transplant = w, !.date = d] :
        w \in WeeksInputs, d \in CalcDates}
    \cup
    {[NoCalc EXCEPT !.req = "calculate_harvest_date", !.done = FALSE,
                    !.days_to_maturity = m, !.date = d] :
        m \in DaysInputs, d \in CalcDates}
    \cup
    {[NoCalc EXCEPT !.req = "seeds_to_start", !.done = FALSE,
                    !.germination_rate = r, !.num_bags = b, !.plants_per_bag = k] :
        r \in RateInputs, b \in 1 .. MaxNumBags, k \in 1 .. MaxPerBag}

CalcInit ==
    /\ seeds = EmptyTable
    /\ seedlings = EmptyTable
    /\ plants = EmptyTable
    /\ hydro_plants = EmptyTable
    /\ grow_bags = EmptyTable
    /\ calc \in CalcInputs
    /\ flashed = None

Apply(req, out) ==
    /\ calc.req = req
    /\ ~calc.done
    /\ calc' = [calc EXCEPT !.done = TRUE, !.out = out]
    /\ UNCHANGED <<store, flashed>>

apply_calculate_capacity ==
    Apply("calculate_capacity", Some(calculate_capacity(calc.size_gallons, calc.category)))

apply_calculate_seed_start_date ==
    Apply("calculate_seed_start_date", Some(calculate_seed_start_date(calc, calc.date)))

apply_calculate_harvest_date ==
    Apply("calculate_harvest_date", calculate_harvest_date(calc, calc.date))

apply_seeds_to_start ==
    Apply("seeds_to_start", Some(seeds_to_start(calc, calc.germination_rate)))

CalcNext ==
    \/ apply_calculate_capacity
    \/ apply_calculate_seed_start_date
    \/ apply_calculate_harvest_date
    \/ apply_seeds_to_start

SpecCalc == CalcInit /\ [][CalcNext]_vars

(***************************************************************************)
(* The planner's date rule applied to one plan item                        *)
(***************************************************************************)
\* 2024-04-15, 2024-04-29 and 2025-04-15 as day numbers
PlannerDates == CalcDates \cup {739356}

\* a plan item, direct sown or not, of a seed with the weeks_to_transplant,
\* and a last frost date
PlannerInputs ==
    {[req |-> "get_seed_start_date", done |-> FALSE, is_direct_sow |-> direct,
      weeks_to_transplant |-> w, date |-> d, out |-> None] :
        direct \in BOOLEAN, w \in WeeksInputs, d \in PlannerDates}

PlannerInit ==
    /\ seeds = EmptyTable
    /\ seedlings = EmptyTable
    /\ plants = EmptyTable
    /\ hydro_plants = EmptyTable
    /\ grow_bags = EmptyTable
    /\ calc \in PlannerInputs
    /\ flashed = None

apply_get_seed_start_date ==
    Apply("get_seed_start_date", Some(get_seed_start_date(calc, calc, calc.date)))

PlannerNext == apply_get_seed_start_date

SpecPlanner == PlannerInit /\ [][PlannerNext]_vars

(***************************************************************************)
(* app.py: deleting seeds and seedling batches                             *)
(***************************************************************************)
\* db.session.delete(row)
Remove(t, id) == [i \in DOMAIN t \ {id} |-> t[i]]

\* the rows of table t whose column holds the key id
Referencing(t, column, id) == {i \in DOMAIN t : t[i][column] = id}

\* the flush of a deleted parent: the nullable foreign key of the rows of
\* the backref collection is set to NULL
Nullify(t, column, id) ==
    [i \in DOMAIN t |-> IF t[i][column] = Some(id) THEN [t[i] EXCEPT ![column] = None]
                                                   ELSE t[i]]

\* seedling_delete deleting the batch whatever references it
seedling_delete_unguarded(u, seedling_id) ==
    IF ~OwnSeedling(u, seedling_id)
    THEN UNCHANGED vars
    ELSE /\ seedlings' = Remove(seedlings, seedling_id)
         /\ hydro_plants' = Nullify(hydro_plants, "seedling_id", seedling_id)
         /\ plants' = Nullify(plants, "seedling_id", seedling_id)
         /\ flashed' = None
         /\ UNCHANGED <<seeds, grow_bags, calc>>

seedling_delete(u, seedling_id) ==
    IF ~OwnSeedling(u, seedling_id)
    THEN UNCHANGED vars                                   \* 404
    ELSE LET plant_count == Cardinality(Referencing(plants, "seedling_id", Some(seedling_id)))
         IN  IF plant_count > 0
             THEN /\ flashed' = Some([about |-> "seedling plants", count |-> plant_count])
                  /\ UNCHANGED <<store, calc>>
             ELSE /\ seedlings' = Remove(seedlings, seedling_id)
                  /\ hydro_plants' = Nullify(hydro_plants, "seedling_id", seedling_id)
                  /\ flashed' = None
                  /\ UNCHANGED <<seeds, plants, grow_bags, calc>>

\* seed_delete; the planning tables are not part of the store
seed_delete(u, seed_id) ==
    IF ~OwnSeed(u, seed_id)
    THEN UNCHANGED vars                                   \* 404
    ELSE LET seed_plants == Referencing(plants, "seed_id", seed_id)
             seed_seedlings == Referencing(seedlings, "seed_id", seed_id)
         IN  IF seed_plants # {}
             THEN /\ flashed' = Some([about |-> "seed plants",
                                      count |-> Cardinality(seed_plants)])
                  /\ UNCHANGED <<store, calc>>
             ELSE IF seed_seedlings # {}
             THEN /\ flashed' = Some([about |-> "seed seedlings",
                                      count |-> Cardinality(seed_seedlings)])
                  /\ UNCHANGED <<store, calc>>
             ELSE /\ seeds' = Remove(seeds, seed_id)
                  /\ hydro_plants' = Nullify(hydro_plants, "seed_id", seed_id)
                  /\ flashed' = None
                  /\ UNCHANGED <<seedlings, plants, grow_bags, calc>>

(***************************************************************************)
(* app.py: deleting grow bags, and harvests                                *)
(***************************************************************************)
\* GrowBag.query.filter_by(id=growbag_id, user_id=current_user.id).first_or_404()
OwnGrowBag(u, growbag_id) ==
    growbag_id \in DOMAIN grow_bags /\ grow_bags[growbag_id].user_id = u

growbag_delete(u, growbag_id) ==
    IF ~OwnGrowBag(u, growbag_id)
    THEN UNCHANGED vars                                   \* 404
    ELSE LET active_plants ==
                 Cardinality({p \in Referencing(plants, "grow_bag_id", Some(growbag_id)) :
                                 plants[p].status \in ActiveStatuses})
         IN  IF active_plants > 0
             THEN /\ flashed' = Some([about |-> "growbag plants", count |-> active_plants])
                  /\ UNCHANGED <<store, calc>>
             ELSE /\ grow_bags' = Remove(grow_bags, growbag_id)
                  /\ plants' = Nullify(plants, "grow_bag_id", growbag_id)
                  /\ flashed' = None
                  /\ UNCHANGED <<seeds, seedlings, hydro_plants, calc>>

\* Plant.query.filter_by(id=plant_id, user_id=current_user.id).first_or_404()
OwnPlant(u, plant_id) == plant_id \in DOMAIN plants /\ plants[plant_id].user_id = u

\* harvest_add, "Update plant status and dates"
harvest_update(plant, harvest_date) ==
    LET first == IF plant.first_harvest_date = None
                 THEN [plant EXCEPT !.first_harvest_date = Some(harvest_date),
                                    !.status = "producing"]
                 ELSE plant
    IN  [first EXCEPT !.last_harvest_date = Some(harvest_date)]

\* harvest_add; the harvests table is not part of the store
harvest_add(u, plant_id, harvest_date) ==
    IF ~OwnPlant(u, plant_id)
    THEN UNCHANGED vars                                   \* 404
    ELSE /\ plants' = [plants EXCEPT ![plant_id] = harvest_update(@, harvest_date)]
         /\ UNCHANGED <<seeds, seedlings, hydro_plants, grow_bags, calc, flashed>>

(***************************************************************************)
(* The shared database: two users send requests                            *)
(***************************************************************************)
Gardeners == {"u1", "u2"}

\* one seed form and one sowing form
SharedSeedForms ==
    { [quantity |-> 2, days_to_maturity |-> Some(3), weeks_to_transplant |-> None] }

SharedSeedlingForms ==
    { [sown_date |-> 1, germination_date |-> Some(2), quantity_started |-> 3,
       quantity_viable |-> Some(2)] }

\* the seed_id of a hydro_plant_add form: absent, or a key seed_add gives
SharedSeedInputs == {None} \cup {Some(s) : s \in Followed}

\* sowing is followed while the lot is oversown by MaxOversown seeds at most
Sowable(seed_id) == seed_id \in DOMAIN seeds => seeds[seed_id].quantity >= 0 - MaxOversown

SharedNext ==
    \/ \E u \in Gardeners, form \in SharedSeedForms : seed_add(u, form)
    \/ \E u \in Gardeners, s \in IdInputs, form \in SharedSeedlingForms :
          Sowable(s) /\ seedling_add(u, s, form)
    \/ \E u \in Gardeners, form \in BagForms : growbag_add(u, form)
    \/ \E u \in Gardeners, s \in IdInputs, d \in TransplantDates, n \in PlantQuantities,
          sl \in OptIdInputs, b \in OptIdInputs : plant_add(u, s, d, n, sl, b)
    \/ \E u \in Gardeners, s \in SharedSeedInputs, sl \in OptIdInputs, d \in TransplantDates :
          hydro_plant_add(u, s, sl, d)
    \/ \E u \in Gardeners, sl \in IdInputs : seedling_delete(u, sl)
    \/ \E u \in Gardeners, s \in IdInputs : seed_delete(u, s)

SpecShared == Init /\ [][SharedNext]_vars

(***************************************************************************)
(* The garden: plants are put into grow bags and harvested                 *)
(***************************************************************************)
\* a sowing of one seed, no viable count given
GardenSeedlingForms ==
    { [sown_date |-> 1, germination_date |-> None, quantity_started |-> 1,
       quantity_viable |-> None] }

\* quantities the plant form accepts besides PlantQuantities: int() takes
\* any integer
NegativeQuantities == {-1}

HarvestDates == {5, 6}

\* plants are taken out of the count of a grow bag down to -MaxUndercount
Countable(grow_bag_id) ==
    (grow_bag_id # None /\ Val(grow_bag_id) \in DOMAIN grow_bags) =>
        grow_bags[Val(grow_bag_id)].current_plants > 0 - MaxUndercount

GardenNext ==
    \/ \E u \in Users, form \in SharedSeedForms : seed_add(u, form)
    \/ \E u \in Users, s \in IdInputs, form \in GardenSeedlingForms : seedling_add(u, s, form)
    \/ \E u \in Users, form \in BagForms : growbag_add(u, form)
    \/ \E u \in Users, s \in IdInputs, d \in TransplantDates, n \in PlantQuantities,
          sl \in OptIdInputs, b \in OptIdInputs : plant_add(u, s, d, n, sl, b)
    \/ \E u \in Users, s \in IdInputs, d \in TransplantDates, n \in NegativeQuantities,
          b \in OptIdInputs : Countable(b) /\ plant_add(u, s, d, n, None, b)
    \/ \E u \in Users, sl \in OptIdInputs, d \in TransplantDates :
          hydro_plant_add(u, None, sl, d)
    \/ \E u \in Users, b \in IdInputs : growbag_delete(u, b)
    \/ \E u \in Users, p \in 1 .. MaxPlants, d \in HarvestDates : harvest_add(u, p, d)

SpecGarden == Init /\ [][GardenNext]_vars

(***************************************************************************)
(* The seedling batches: sowing, updates and potting up                    *)
(***************************************************************************)
SeedlingNext ==
    \/ \E u \in Users, form \in SeedForms : seed_add(u, form)
    \/ \E u \in Users, s \in IdInputs, form \in SeedlingForms : seedling_add(u, s, form)
    \/ \E u \in Users, s \in IdInputs, form \in GerminationForms : seedling_update(u, s, form)
    \/ \E u \in Users, s \in IdInputs, form \in PotUpForms : seedling_pot_up(u, s, form)

SpecSeedling == Init /\ [][SeedlingNext]_vars

(***************************************************************************)
(* app.py: the planting calendar.  An item of the index is reduced to its  *)
(* source, the id of its row and its name, the name of a variety standing  *)
(* as the id of the seed.  The rows of a query without ORDER BY come in    *)
(* the order of their primary keys.                                        *)
(***************************************************************************)
\* {'seed_starts': [], 'transplants': [], 'harvests': []}
NoEvents == [seed_starts |-> <<>>, transplants |-> <<>>, harvests |-> <<>>]

\* add_event overwriting what the date and kind hold
add_event_overwrite(events, date, event_type, item) ==
    LET known == IF date \in DOMAIN events THEN events ELSE events @@ (date :> NoEvents)
    IN  [known EXCEPT ![date][event_type] = <<item>>]

\* add_event
add_event(events, date, event_type, item) ==
    LET known == IF date \in DOMAIN events THEN events ELSE events @@ (date :> NoEvents)
    IN  [known EXCEPT ![date][event_type] = Append(@, item)]

\* one call of add_event
Call(date, event_type, item) == [date |-> date, event_type |-> event_type, item |-> item]

RECURSIVE Flatten(_)
Flatten(ss) == IF ss = <<>> THEN <<>> ELSE Head(ss) \o Flatten(Tail(ss))

\* the calls of add_event in the body of "for seed in seeds"
SeedCalls(s, transplant_target) ==
    LET seed_start == calculate_seed_start_date(seeds[s], transplant_target)
        harvest == calculate_harvest_date(seeds[s], transplant_target)
        item == [source |-> "seed", id |-> s, name |-> s]
    IN  <<Call(seed_start, "seed_starts", item),
          Call(transplant_target, "transplants", item)>>
        \o (IF harvest # None THEN <<Call(Val(harvest), "harvests", item)>> ELSE <<>>)

\* the status values of the seedlings the calendar shows
CalendarSeedlingStatuses == {"germinating", "growing", "ready"}

\* the calls of add_event in the body of "for seedling in seedlings"
SeedlingCalls(sl) ==
    IF seedlings[sl].expected_transplant_date # None
    THEN <<Call(Val(seedlings[sl].expected_transplant_date), "transplants",
                [source |-> "seedling", id |-> sl, name |-> seedlings[sl].seed_id])>>
    ELSE <<>>

\* the calls of add_event in the body of "for plant in plants"
PlantCalls(p) ==
    IF plants[p].expected_harvest_date # None
    THEN <<Call(Val(plants[p].expected_harvest_date), "harvests",
                [source |-> "plant", id |-> p, name |-> plants[p].seed_id])>>
    ELSE <<>>

\* all the calls of add_event planting_calendar makes for user u, in order
CalendarCalls(u, last_frost) ==
    LET transplant_target == last_frost + Weeks(2)
        seed_rows == sorted({s \in DOMAIN seeds :
                               seeds[s].user_id = u /\ seeds[s].quantity > 0})
        seedling_rows == sorted({sl \in DOMAIN seedlings :
                                   /\ seedlings[sl].user_id = u
                                   /\ seedlings[sl].status \in CalendarSeedlingStatuses})
        plant_rows == sorted({p \in DOMAIN plants :
                                /\ plants[p].user_id = u
                                /\ plants[p].status \in ActiveStatuses})
    IN  Flatten([i \in 1 .. Len(seed_rows) |-> SeedCalls(seed_rows[i], transplant_target)])
        \o Flatten([i \in 1 .. Len(seedling_rows) |-> SeedlingCalls(seedling_rows[i])])
        \o Flatten([i \in 1 .. Len(plant_rows) |-> PlantCalls(plant_rows[i])])

\* the events dictionary after the calls from the i-th on
RECURSIVE AddEvents(_, _, _)
AddEvents(events, calls, i) ==
    IF i > Len(calls) THEN events
    ELSE AddEvents(add_event(events, calls[i].date, calls[i].event_type, calls[i].item),
                   calls, i + 1)

\* the tasks of check_date, "if check_date in events"
TasksOfDate(events, check_date) ==
    IF check_date \notin DOMAIN events THEN <<>>
    ELSE LET day == events[check_date]
         IN  [i \in 1 .. Len(day.seed_starts) |->
                 [date |-> check_date, action |-> "Start Seeds",
                  name |-> day.seed_starts[i].name, type |-> "seed-start"]]
             \o [i \in 1 .. Len(day.transplants) |->
                 [date |-> check_date, action |-> "Transplant",
                  name |-> day.transplants[i].name, type |-> "transplant"]]
             \o [i \in 1 .. Len(day.harvests) |->
                 [date |-> check_date, action |-> "Harvest",
                  name |-> day.harvests[i].name, type |-> "harvest"]]

\* "for i in range(days)", from i on
RECURSIVE TasksFrom(_, _, _, _)
TasksFrom(events, today, i, days) ==
    IF i >= days THEN <<>>
    ELSE TasksOfDate(events, today + i) \o TasksFrom(events, today, i + 1, days)

\* upcoming_tasks.sort(key=lambda x: x['date']): the sort is stable
SortByDate(tasks) ==
    LET dates == sorted({tasks[i].date : i \in 1 .. Len(tasks)})
    IN  Flatten([k \in 1 .. Len(dates) |->
                    SelectSeq(tasks, LAMBDA task : task.date = dates[k])])

\* the upcoming tasks with the scan written range(15)
upcoming_tasks_fortnight_on(events, today) == SortByDate(TasksFrom(events, today, 0, 15))

\* "Build upcoming tasks list (next 14 days)"
upcoming_tasks(events, today) == SortByDate(TasksFrom(events, today, 0, 14))

\* planting_calendar: the page of user u on the day today, last_frost the
\* last frost date of the year shown
planting_calendar(u, today, last_frost) ==
    LET events == AddEvents(EmptyTable, CalendarCalls(u, last_frost), 1)
    IN  /\ calc' = [NoCalc EXCEPT
                       !.req = "planting_calendar",
                       !.date = today,
                       !.out = Some([last_frost |-> last_frost,
                                     events |-> events,
                                     upcoming_tasks |-> upcoming_tasks(events, today)])]
        /\ UNCHANGED <<store, flashed>>

(***************************************************************************)
(* The calendar: requests fill the tables, then the calendar is asked      *)
(***************************************************************************)
\* the days on which the calendar is asked
Todays == {1, 2, 5}

\* the last frost date of the year shown
LastFrosts == {1}

\* the seed forms, with one of a lot in stock whose days_to_maturity and
\* weeks_to_transplant are typed 0
CalendarSeedForms ==
    SeedForms \cup
    { [quantity |-> 2, days_to_maturity |-> Some(0), weeks_to_transplant |-> Some(0)] }

\* no page has been asked yet
NoPageYet == calc.req = "none"

CalendarNext ==
    \/ \E u \in Users, form \in CalendarSeedForms : NoPageYet /\ seed_add_any(u, form)
    \/ \E u \in Users, s \in IdInputs, form \in SeedlingForms :
          NoPageYet /\ seedling_add(u, s, form)
    \/ \E u \in Users, sl \in IdInputs, form \in PotUpForms :
          NoPageYet /\ seedling_pot_up(u, sl, form)
    \/ \E u \in Users, s \in IdInputs, d \in TransplantDates, n \in PlantQuantities,
          sl \in OptIdInputs :
          NoPageYet /\ plant_add(u, s, d, n, sl, None)
    \/ \E u \in Users, today \in Todays, last_frost \in LastFrosts :
          NoPageYet /\ planting_calendar(u, today, last_frost)

SpecCalendar == Init /\ [][CalendarNext]_vars

(***************************************************************************)
(* Properties of the transplant consumption                                *)
(***************************************************************************)
\* a plant_add request that names seedling sl, is carried out and changes
\* the database
PlantAddFrom(sl, n, d) ==
    /\ sl \in DOMAIN seedlings
    /\ store' # store
    /\ Rows(plants') = Rows(plants) + n
    /\ UNCHANGED <<seeds, hydro_plants>>
    /\ seedlings'[sl] = plant_add_consume(seedlings[sl], n, d)
    /\ \E u \in Users, s \in IdInputs, b \in OptIdInputs :
          /\ OwnSeed(u, s)
          /\ b # None => Val(b) \in DOMAIN grow_bags
          /\ plant_add(u, s, d, n, Some(sl), b)

\* a hydro_plant_add request that names seedling sl and is carried out
HydroPlantAddFrom(sl, d) ==
    /\ sl \in DOMAIN seedlings
    /\ Rows(hydro_plants') = Rows(hydro_plants) + 1
    /\ UNCHANGED <<seeds, plants, grow_bags>>
    /\ \E u \in Users : hydro_plant_add(u, None, Some(sl), d)

\* the batch quantity a consumption draws from: potted-up when set and
\* nonzero, else viable
FromPottedUp(batch) == batch.quantity_potted_up \notin {None, Some(0)}

Available(batch) ==
    IF FromPottedUp(batch) THEN Val(batch.quantity_potted_up)
    ELSE IF batch.quantity_viable # None THEN Val(batch.quantity_viable)
    ELSE 0

ClampedAt0(x) == IF x < 0 THEN 0 ELSE x

\* C1: a plant_add of n >= 1 units from a batch sets the quantity field that
\* supplied "available" (potted-up when set and nonzero, else viable) to
\* max(0, available - n) and leaves the other quantity field as it was.
C1_ConsumptionRule ==
    [][\A sl \in IdInputs, n \in PlantQuantities, d \in TransplantDates :
          (n >= 1 /\ PlantAddFrom(sl, n, d)) =>
              LET old == seedlings[sl]
                  new == seedlings'[sl]
              IN  IF FromPottedUp(old)
                  THEN /\ new.quantity_potted_up = Some(ClampedAt0(Available(old) - n))
                       /\ new.quantity_viable = old.quantity_viable
                  ELSE /\ new.quantity_viable = Some(ClampedAt0(Available(old) - n))
                       /\ new.quantity_potted_up = old.quantity_potted_up]_vars

\* C1 witness: potted_up = 2, viable = 3, one unit transplanted: potted_up
\* is 1, viable still 3, and the plant made from the batch is recorded.
C1_Witness ==
    /\ 1 \in DOMAIN seedlings
    /\ seedlings[1].quantity_potted_up = Some(1)
    /\ seedlings[1].quantity_viable = Some(3)
    /\ seedlings[1].status = "potted_up"
    /\ Rows(plants) = 1
    /\ \A p \in DOMAIN plants : plants[p].seedling_id = Some(1)

\* C2: a transplant consumption sets the batch to 'transplanted' and records
\* the transplant date as actual_transplant_date exactly when
\* available - n <= 0; otherwise it leaves status and date as they were.
C2_TransplantedWhenUsedUp ==
    [][\A sl \in IdInputs, n \in PlantQuantities, d \in TransplantDates :
          PlantAddFrom(sl, n, d) =>
              LET old == seedlings[sl]
                  new == seedlings'[sl]
              IN  IF Available(old) - n <= 0
                  THEN /\ new.status = "transplanted"
                       /\ new.actual_transplant_date = Some(d)
                  ELSE /\ new.status = old.status
                       /\ new.actual_transplant_date = old.actual_transplant_date]_vars

\* C2 witness: a batch used up by a transplant of both its potted-up units.
C2_Witness ==
    /\ 1 \in DOMAIN seedlings
    /\ seedlings[1].quantity_potted_up = Some(0)
    /\ seedlings[1].quantity_viable = Some(3)
    /\ seedlings[1].status = "transplanted"
    /\ seedlings[1].actual_transplant_date = Some(4)
    /\ Rows(plants) = 2
    /\ \A p \in DOMAIN plants : plants[p].seedling_id = Some(1)

\* the fields of a batch the consumption rule decides
BatchLedger(batch) ==
    <<batch.quantity_potted_up, batch.quantity_viable, batch.status,
      batch.actual_transplant_date>>

\* C3: hydro_plant_add leaves quantity_potted_up, quantity_viable, status and
\* actual_transplant_date of the batch as plant_add's consumption of
\* quantity 1 on the same transplant date leaves them.
C3_HydroSameAsSoil ==
    [][\A sl \in IdInputs, d \in TransplantDates :
          HydroPlantAddFrom(sl, d) =>
              BatchLedger(seedlings'[sl])
                  = BatchLedger(plant_add_consume(seedlings[sl], 1, d))]_vars

\* C3 witness: a hydro plant taken from a potted-up batch of 2 leaves 1.
C3_Witness ==
    /\ 1 \in DOMAIN seedlings
    /\ seedlings[1].quantity_potted_up = Some(1)
    /\ seedlings[1].quantity_viable = Some(3)
    /\ seedlings[1].status = "potted_up"
    /\ Rows(hydro_plants) = 1
    /\ Rows(plants) = 0
    /\ \A h \in DOMAIN hydro_plants : hydro_plants[h].seedling_id = Some(1)

\* C4: the quantity on hand of a seed lot is never negative.
C4_SeedQuantityNeverNegative == \A s \in DOMAIN seeds : seeds[s].quantity >= 0

(***************************************************************************)
(* Properties of the seedling status                                       *)
(***************************************************************************)
Terminal == {"transplanted", "failed"}

\* the place of a status in the order germinating, growing, potted_up,
\* ready, transplanted
Rank(status) ==
    CASE status = "germinating" -> 1
      [] status = "growing" -> 2
      [] status = "potted_up" -> 3
      [] status = "ready" -> 4
      [] status = "transplanted" -> 5
      [] OTHER -> 0

\* C9: once a batch is 'transplanted' or 'failed', no request changes its
\* status.
C9_TerminalStatusesStay ==
    [][\A sl \in DOMAIN seedlings :
          seedlings[sl].status \in Terminal =>
              seedlings'[sl].status = seedlings[sl].status]_vars

\* C10: the status of a batch is always one of the six statuses, and a
\* change of status goes to 'failed' from a non-terminal status or forward
\* in the order germinating, growing, potted_up, ready, transplanted.
C10_StatusMovesForward ==
    [][\A sl \in DOMAIN seedlings' :
          /\ seedlings'[sl].status \in Statuses
          /\ (sl \in DOMAIN seedlings /\ seedlings'[sl].status # seedlings[sl].status) =>
                \/ (seedlings'[sl].status = "failed" /\ seedlings[sl].status \notin Terminal)
                \/ (/\ seedlings[sl].status # "failed"
                    /\ seedlings'[sl].status # "failed"
                    /\ Rank(seedlings[sl].status) < Rank(seedlings'[sl].status))]_vars

(***************************************************************************)
(* Properties of the calculation rules                                     *)
(***************************************************************************)
Asked(req) == calc.req = req /\ calc.done

\* the capacity table of the specification: volume, then the compact,
\* medium and large columns
TabulatedVolumes == {1, 2, 3, 5, 7, 10, 15, 20, 25}

CapacityTable ==
    1 :> <<1, 0, 0>> @@ 2 :> <<2, 0, 0>> @@ 3 :> <<3, 1, 0>> @@ 5 :> <<5, 1, 0>>
      @@ 7 :> <<7, 2, 1>> @@ 10 :> <<10, 2, 1>> @@ 15 :> <<15, 3, 1>>
      @@ 20 :> <<20, 4, 2>> @@ 25 :> <<25, 5, 2>>

TableRow(v) ==
    IF \E k \in TabulatedVolumes : k >= v
    THEN CHOOSE k \in TabulatedVolumes :
            k >= v /\ \A j \in TabulatedVolumes : j >= v => k <= j
    ELSE 25

TableColumn(c) == IF c = "compact" THEN 1 ELSE IF c = "large" THEN 3 ELSE 2

\* C5: for a volume v >= 1 and any category c, calculate_capacity(v, c) is
\* the table entry of the smallest tabulated volume >= v (of 25 when v > 25)
\* in the column of c, the medium column when c is not a known category.
C5_CapacityMatchesTable ==
    Asked("calculate_capacity") =>
        calc.out = Some(CapacityTable[TableRow(calc.size_gallons)][TableColumn(calc.category)])

\* C5 witness: 26 gallons of an unknown category: the medium entry of the
\* 25 gallon row.
C5_Witness ==
    /\ Asked("calculate_capacity")
    /\ calc.size_gallons = 26
    /\ calc.category = "dwarf"
    /\ calc.out = Some(5)

\* C6: calculate_seed_start_date is the transplant target minus 7 * w days
\* for every weeks_to_transplant w >= 0, and 6 weeks only when w is not set.
C6_SeedStartIsTargetMinusWeeks ==
    Asked("calculate_seed_start_date") =>
        calc.out = Some(calc.date - 7 * (IF calc.weeks_to_transplant = None
                                         THEN 6 ELSE Val(calc.weeks_to_transplant)))

\* C7: the harvest estimate is the transplant date plus days_to_maturity
\* whenever days_to_maturity is present, and there is none only when it is
\* absent.
C7_HarvestWheneverMaturityPresent ==
    Asked("calculate_harvest_date") =>
        calc.out = (IF calc.days_to_maturity # None
                    THEN Some(calc.date + Val(calc.days_to_maturity))
                    ELSE None)

\* the smallest integer s with s * d >= n, for n >= 0 and d > 0
CeilDiv(n, d) == (n + d - 1) \div d

\* C8: seeds_to_start is the smallest integer s with
\* s * germination_rate >= total_plants_needed * 100 when the rate is
\* present and > 0, and total_plants_needed * 2 otherwise.
C8_SeedsToStartIsExactCeiling ==
    Asked("seeds_to_start") =>
        LET total == calc.num_bags * calc.plants_per_bag
            rate == calc.germination_rate
        IN  calc.out = Some(IF rate # None /\ Val(rate) > 0
                            THEN CeilDiv(total * 100, Val(rate))
                            ELSE total * 2)


(***************************************************************************)
(* Properties of the seedling updates                                      *)
(***************************************************************************)
\* a seedling_update request on batch sl that is carried out with the form
UpdateStep(sl, form) ==
    /\ sl \in DOMAIN seedlings
    /\ UNCHANGED <<seeds, plants, hydro_plants, grow_bags>>
    /\ \E u \in Users : OwnSeedling(u, sl) /\ seedling_update(u, sl, form)

\* the update records the germination date d and asks for no change of
\* status: its status field repeats the status of the batch
RecordsGermination(sl, form, d) ==
    /\ sl \in DOMAIN seedlings
    /\ form.germination_date = Some(d)
    /\ form.status = seedlings[sl].status
    /\ UpdateStep(sl, form)

\* C11: recording germination sets germination_date to the given date; it
\* moves a batch that is 'germinating' to 'growing' and leaves any other
\* status as it is.
C11_GerminationAdvancesGerminating ==
    [][\A sl \in IdInputs, form \in GerminationForms, d \in {2} :
          RecordsGermination(sl, form, d) =>
              /\ seedlings'[sl].germination_date = Some(d)
              /\ seedlings'[sl].status =
                     IF seedlings[sl].status = "germinating"
                     THEN "growing" ELSE seedlings[sl].status]_vars

\* C12: after a germination update with no new viable quantity, the same
\* update applied again leaves the batch as it is.
C12_GerminationIdempotent ==
    [][\A sl \in IdInputs, form \in GerminationForms :
          (/\ form.germination_date # None
           /\ form.quantity_viable = None
           /\ UpdateStep(sl, form)) =>
              seedling_update_fields(seedlings'[sl], form) = seedlings'[sl]]_vars

\* C12 witness: a batch sown without a germination date whose germination
\* was recorded by an update that kept it 'germinating'.
C12_Witness ==
    /\ 1 \in DOMAIN seedlings
    /\ seedlings[1].germination_date = Some(2)
    /\ seedlings[1].status = "germinating"

\* a seedling_pot_up request on batch sl that is carried out with the form
PotUpStep(sl, form) ==
    /\ sl \in DOMAIN seedlings
    /\ UNCHANGED <<seeds, plants, hydro_plants, grow_bags>>
    /\ seedlings' # seedlings
    /\ \E u \in Users : OwnSeedling(u, sl) /\ seedling_pot_up(u, sl, form)

\* C13: pot up sets potted_up_date and pot_size to the given values,
\* quantity_potted_up to the given quantity or else to quantity_viable, the
\* status to 'potted_up', and leaves quantity_viable, quantity_started and
\* germination_date unchanged.
C13_PotUpSetsFields ==
    [][\A sl \in IdInputs, form \in PotUpForms :
          PotUpStep(sl, form) =>
              /\ seedlings'[sl].potted_up_date = Some(form.potted_up_date)
              /\ seedlings'[sl].pot_size = form.pot_size
              /\ seedlings'[sl].quantity_potted_up =
                     IF form.quantity_potted_up # None
                     THEN form.quantity_potted_up ELSE seedlings[sl].quantity_viable
              /\ seedlings'[sl].status = "potted_up"
              /\ seedlings'[sl].quantity_viable = seedlings[sl].quantity_viable
              /\ seedlings'[sl].quantity_started = seedlings[sl].quantity_started
              /\ seedlings'[sl].germination_date = seedlings[sl].germination_date]_vars

\* C13 witness: a batch of 3 started, 2 viable, potted up with no quantity
\* given: 2 potted up.
C13_Witness ==
    /\ 1 \in DOMAIN seedlings
    /\ seedlings[1].status = "potted_up"
    /\ seedlings[1].quantity_started = 3
    /\ seedlings[1].quantity_viable = Some(2)
    /\ seedlings[1].quantity_potted_up = Some(2)
    /\ seedlings[1].potted_up_date = Some(3)

(***************************************************************************)
(* Properties of the delete requests                                       *)
(***************************************************************************)
\* the PlantRecords that reference batch sl
PlantsOf(sl) == {p \in DOMAIN plants : plants[p].seedling_id = Some(sl)}

\* a seedling_delete request of its owner on batch sl
SeedlingDeleteStep(sl) ==
    /\ sl \in DOMAIN seedlings
    /\ UNCHANGED <<seeds, grow_bags>>
    /\ \E u \in Gardeners : OwnSeedling(u, sl) /\ seedling_delete(u, sl)

\* C14: seedling_delete removes the batch only when no PlantRecord references
\* it; when k > 0 reference it the caller is told the count k and the batch
\* and every other record are unchanged.
C14_DeleteOnlyUnreferencedBatch ==
    [][\A sl \in IdInputs :
          SeedlingDeleteStep(sl) =>
              IF PlantsOf(sl) = {}
              THEN sl \notin DOMAIN seedlings'
              ELSE /\ store' = store
                   /\ flashed' = Some([about |-> "seedling plants",
                                       count |-> Cardinality(PlantsOf(sl))])]_vars

\* C14 witness: the delete of a batch that two PlantRecords reference was
\* refused, telling 2.
C14_Witness ==
    /\ flashed = Some([about |-> "seedling plants", count |-> 2])
    /\ 1 \in DOMAIN seedlings
    /\ Cardinality(PlantsOf(1)) = 2

(***************************************************************************)
(* Properties of plant_add                                                 *)
(***************************************************************************)
\* a plant_add request for n plants of seed s that is carried out, from
\* batch sl if any, into grow bag b if any
PlantAddStep(s, n, sl, b) ==
    /\ plants' # plants
    /\ s \in DOMAIN seeds
    /\ b # None => Val(b) \in DOMAIN grow_bags
    /\ sl # None => Val(sl) \in DOMAIN seedlings
    /\ \E u \in Gardeners, d \in TransplantDates :
          OwnSeed(u, s) /\ plant_add(u, s, d, n, sl, b)

\* C15: plant_add with quantity n >= 1 into a Container creates exactly n
\* PlantRecords, each 'growing' in that Container, and raises the
\* Container's current_plants by n, whatever its max_plants.
C15_PlantAddCountsEveryPlant ==
    [][\A s \in IdInputs, n \in PlantQuantities \ {0}, sl \in OptIdInputs, b \in IdInputs :
          PlantAddStep(s, n, sl, Some(b)) =>
              /\ DOMAIN plants \subseteq DOMAIN plants'
              /\ Rows(plants') = Rows(plants) + n
              /\ \A p \in DOMAIN plants :  plants'[p] = plants[p]
              /\ \A p \in DOMAIN plants' \ DOMAIN plants :
                    /\ plants'[p].status = "growing"
                    /\ plants'[p].grow_bag_id = Some(b)
              /\ grow_bags'[b].current_plants = grow_bags[b].current_plants + n]_vars

\* C15 witness: two plants put into a grow bag of max_plants 1, its
\* current_plants 2.
C15_Witness ==
    /\ 1 \in DOMAIN grow_bags
    /\ grow_bags[1].max_plants = 1
    /\ grow_bags[1].current_plants = 2
    /\ Cardinality({p \in DOMAIN plants : plants[p].grow_bag_id = Some(1)}) = 2

\* the step has all the effects of a plant_add: n new PlantRecords of one
\* batch and one grow bag, the grow bag counting them, the batch consumed
PlantAddApplied ==
    \E n \in PlantQuantities \ {0}, sl \in OptIdInputs, b \in OptIdInputs, d \in TransplantDates :
        /\ DOMAIN plants' = DOMAIN plants \cup (NextId(plants) .. (NextId(plants) + n - 1))
        /\ \A p \in DOMAIN plants : plants'[p] = plants[p]
        /\ \A p \in DOMAIN plants' \ DOMAIN plants :
              /\ plants'[p].seedling_id = sl
              /\ plants'[p].grow_bag_id = b
              /\ plants'[p].transplant_date = d
        /\ IF b = None THEN grow_bags' = grow_bags
           ELSE /\ Val(b) \in DOMAIN grow_bags
                /\ grow_bags' = [grow_bags EXCEPT ![Val(b)].current_plants = @ + n]
        /\ IF sl = None THEN seedlings' = seedlings
           ELSE /\ Val(sl) \in DOMAIN seedlings
                /\ seedlings' = [seedlings EXCEPT ![Val(sl)] = plant_add_consume(@, n, d)]
        /\ UNCHANGED <<seeds, hydro_plants>>

\* the step has all the effects of a seedling_add: one new batch of a seed
\* lot, and the lot less the quantity started
SeedlingAddApplied ==
    \E s \in DOMAIN seeds :
        LET new == NextId(seedlings)
        IN  /\ DOMAIN seedlings' = DOMAIN seedlings \cup {new}
            /\ \A sl \in DOMAIN seedlings : seedlings'[sl] = seedlings[sl]
            /\ seedlings'[new].seed_id = s
            /\ seeds' = [seeds EXCEPT ![s].quantity = @ - seedlings'[new].quantity_started]
            /\ UNCHANGED <<plants, hydro_plants, grow_bags>>

\* the step has some effect of a plant_add
PlantAddTouched ==
    \/ plants' # plants
    \/ \E b \in DOMAIN grow_bags \cap DOMAIN grow_bags' :
          grow_bags'[b].current_plants # grow_bags[b].current_plants

\* the step has some effect of a seedling_add
SeedlingAddTouched ==
    \/ Rows(seedlings') > Rows(seedlings)
    \/ \E s \in DOMAIN seeds \cap DOMAIN seeds' : seeds'[s].quantity # seeds[s].quantity

\* C16: plant_add and seedling_add are all or nothing: a step that has some
\* effect of the request has all of them, so a request that fails (a
\* grow_bag_id or seedling_id of no row) changes nothing.
C16_AddIsAllOrNothing ==
    [][/\ PlantAddTouched => PlantAddApplied
       /\ SeedlingAddTouched => SeedlingAddApplied]_vars

\* C16 witness: two plants added from batch 1 into grow bag 1, all effects
\* applied, while no grow bag 2 exists for a request to name.
C16_Witness ==
    /\ 2 \notin DOMAIN grow_bags
    /\ 1 \in DOMAIN grow_bags /\ grow_bags[1].current_plants = 2
    /\ 1 \in DOMAIN seedlings /\ seedlings[1].status = "transplanted"
    /\ seedlings[1].quantity_viable = Some(0)
    /\ Cardinality({p \in DOMAIN plants : /\ plants[p].grow_bag_id = Some(1)
                                          /\ plants[p].seedling_id = Some(1)}) = 2

(***************************************************************************)
(* Properties of the isolation of the users                                *)
(***************************************************************************)
\* a plant_add or hydro_plant_add request of user u
TransplantRequestBy(u) ==
    \/ \E s \in IdInputs, d \in TransplantDates, n \in PlantQuantities,
          sl \in OptIdInputs, b \in OptIdInputs : plant_add(u, s, d, n, sl, b)
    \/ \E s \in SharedSeedInputs, sl \in OptIdInputs, d \in TransplantDates :
          hydro_plant_add(u, s, sl, d)

\* the rows of table t that user u does not own are in t' as they are in t
OthersRowsKept(t, t2, u) ==
    \A i \in DOMAIN t : t[i].user_id # u => (i \in DOMAIN t2 /\ t2[i] = t[i])

\* C17: a plant_add or hydro_plant_add request of one user changes no record
\* of another user: naming another user's grow bag or seedling batch leaves
\* it as it is.
C17_RequestsKeepOthersRecords ==
    [][\A u \in Gardeners :
          TransplantRequestBy(u) =>
              /\ OthersRowsKept(grow_bags, grow_bags', u)
              /\ OthersRowsKept(seedlings, seedlings', u)
              /\ OthersRowsKept(seeds, seeds', u)
              /\ OthersRowsKept(plants, plants', u)
              /\ OthersRowsKept(hydro_plants, hydro_plants', u)]_vars

(***************************************************************************)
(* Properties of the seed lots                                             *)
(***************************************************************************)
\* a hydro_plant_add request that is carried out with seed lot s and no
\* seedling batch
HydroPlantAddFromSeed(s) ==
    /\ s \in DOMAIN seeds
    /\ \E u \in Gardeners, d \in TransplantDates : hydro_plant_add(u, Some(s), None, d)

\* C18: hydro_plant_add with a seed_id and no seedling_id takes one seed
\* from the lot: its quantity is one less.
C18_DirectHydroPlantTakesOneSeed ==
    [][\A s \in IdInputs :
          HydroPlantAddFromSeed(s) =>
              /\ s \in DOMAIN seeds'
              /\ seeds'[s].quantity = seeds[s].quantity - 1]_vars

\* some SeedlingBatch, PlantRecord or HydroPlant references seed lot s
SeedReferenced(s) ==
    \/ \E sl \in DOMAIN seedlings : seedlings[sl].seed_id = s
    \/ \E p \in DOMAIN plants : plants[p].seed_id = s
    \/ \E h \in DOMAIN hydro_plants : hydro_plants[h].seed_id = Some(s)

\* a seed_delete request of its owner on seed lot s
SeedDeleteStep(s) ==
    /\ s \in DOMAIN seeds
    /\ \E u \in Gardeners : OwnSeed(u, s) /\ seed_delete(u, s)

\* C19: seed_delete on a seed lot that a SeedlingBatch, PlantRecord or
\* HydroPlant references is refused: the lot and every record are as they
\* were.
C19_ReferencedSeedIsKept ==
    [][\A s \in IdInputs :
          (SeedReferenced(s) /\ SeedDeleteStep(s)) => store' = store]_vars

(***************************************************************************)
(* Properties of the available space                                       *)
(***************************************************************************)
\* max_plants - current_plants of grow bag b, floored at 0
FlooredSpace(b) == Max(0, grow_bags[b].max_plants - grow_bags[b].current_plants)

RECURSIVE SumFloored(_)
SumFloored(S) ==
    IF S = {} THEN 0
    ELSE LET b == CHOOSE x \in S : TRUE IN FlooredSpace(b) + SumFloored(S \ {b})

\* C20: every available space reported is max - current floored at 0, and
\* so never negative: GrowBag.available_space, the dashboard's sum, and
\* api_growbag_capacity's available_space.
C20_AvailableSpaceFloored ==
    /\ \A b \in DOMAIN grow_bags :
          /\ available_space(grow_bags[b]) = FlooredSpace(b)
          /\ \A category \in DOMAIN capacity : api_available_space(b, category) >= 0
    /\ \A u \in Gardeners :
          /\ index_available_space(u) >= 0
          /\ index_available_space(u) =
                 SumFloored({b \in DOMAIN grow_bags : grow_bags[b].user_id = u})

(***************************************************************************)
(* Properties of the planting calendar                                     *)
(***************************************************************************)
\* the page asked: the response of the last request is a calendar
Page == Val(calc.out)

PageShown == calc.req = "planting_calendar"

\* a planting_calendar request of user u
CalendarStep(u, today, last_frost) ==
    /\ calc.req = "none"
    /\ calc'.req = "planting_calendar"
    /\ planting_calendar(u, today, last_frost)

EventKinds == {"seed_starts", "transplants", "harvests"}

\* the items the calls add for a date and a kind, in the order of the calls
ItemsAdded(calls, date, event_type) ==
    LET added == SelectSeq(calls, LAMBDA c : c.date = date /\ c.event_type = event_type)
    IN  [i \in 1 .. Len(added) |-> added[i].item]

\* C21: in the date index no event overwrites or drops an earlier one: for
\* every date and kind the list holds every item added for them, in the
\* order they were added.
C21_EventsAccumulate ==
    [][\A u \in Users, today \in Todays, last_frost \in LastFrosts :
          CalendarStep(u, today, last_frost) =>
              LET calls == CalendarCalls(u, last_frost)
                  events == Val(calc'.out).events
              IN  /\ DOMAIN events = {calls[i].date : i \in 1 .. Len(calls)}
                  /\ \A date \in DOMAIN events, kind \in EventKinds :
                        events[date][kind] = ItemsAdded(calls, date, kind)]_vars

\* C21 witness: a page whose index holds, on one date, the seed start of
\* seed lot 1 and then the seed start of seed lot 2.
C21_Witness ==
    /\ PageShown
    /\ \E date \in DOMAIN Page.events :
          /\ Len(Page.events[date].seed_starts) = 2
          /\ Page.events[date].seed_starts[1].id = 1
          /\ Page.events[date].seed_starts[2].id = 2

\* the task the upcoming tasks hold for an item of a kind on a date
TaskOf(date, kind, item) ==
    [date |-> date,
     action |-> CASE kind = "seed_starts" -> "Start Seeds"
                  [] kind = "transplants" -> "Transplant"
                  [] kind = "harvests" -> "Harvest",
     name |-> item.name,
     type |-> CASE kind = "seed_starts" -> "seed-start"
                [] kind = "transplants" -> "transplant"
                [] kind = "harvests" -> "harvest"]

\* the tasks of the events of a date: seed starts, then transplants, then
\* harvests, each kind in the order of the index
ExpectedTasks(events, date) ==
    IF date \notin DOMAIN events THEN <<>>
    ELSE [i \in 1 .. Len(events[date].seed_starts) |->
             TaskOf(date, "seed_starts", events[date].seed_starts[i])]
         \o [i \in 1 .. Len(events[date].transplants) |->
             TaskOf(date, "transplants", events[date].transplants[i])]
         \o [i \in 1 .. Len(events[date].harvests) |->
             TaskOf(date, "harvests", events[date].harvests[i])]

\* C22: the upcoming tasks are the events of the dates today .. today + 13,
\* one task an event, in ascending order of date and, within a date, seed
\* starts before transplants before harvests, each kind in its order of
\* insertion.
C22_UpcomingTasksAreTheWindow ==
    [][\A u \in Users, today \in Todays, last_frost \in LastFrosts :
          CalendarStep(u, today, last_frost) =>
              LET events == Val(calc'.out).events
                  tasks == Val(calc'.out).upcoming_tasks
              IN  /\ \A i, j \in 1 .. Len(tasks) : i < j => tasks[i].date <= tasks[j].date
                  /\ \A date \in DOMAIN events \cup {tasks[i].date : i \in 1 .. Len(tasks)} :
                        SelectSeq(tasks, LAMBDA task : task.date = date) =
                            IF today <= date /\ date <= today + 13
                            THEN ExpectedTasks(events, date) ELSE <<>>]_vars

\* C22 witness: asked on day 2, the tasks are the seed start of lot 2 and
\* then the transplant of the batch of lot 1 on day 8, and the transplant of
\* lot 2 on day 15 = 2 + 13.
C22_Witness ==
    /\ PageShown
    /\ calc.date = 2
    /\ Page.upcoming_tasks =
          <<TaskOf(8, "seed_starts", [name |-> 2]),
            TaskOf(8, "transplants", [name |-> 1]),
            TaskOf(15, "transplants", [name |-> 2])>>

\* the index holds on the date an item of the kind for row id of the source
HasItem(events, date, kind, source, id) ==
    /\ date \in DOMAIN events
    /\ \E i \in 1 .. Len(events[date][kind]) :
          events[date][kind][i].source = source /\ events[date][kind][i].id = id

\* the seed lots of user u the calendar projects
InStock(u) == {s \in DOMAIN seeds : seeds[s].user_id = u /\ seeds[s].quantity > 0}

\* C23: with T = last frost + 14 days, every seed lot in stock with
\* weeks_to_transplant w and days_to_maturity d has a seed_starts event at
\* T - 7 * w, a transplants event at T and a harvests event at T + d.
C23_SeedLotProjectedFromFrost ==
    [][\A u \in Users, today \in Todays, last_frost \in LastFrosts :
          CalendarStep(u, today, last_frost) =>
              LET events == Val(calc'.out).events
                  T == last_frost + 14
              IN  \A s \in InStock(u) :
                    /\ seeds[s].weeks_to_transplant # None =>
                          HasItem(events, T - 7 * Val(seeds[s].weeks_to_transplant),
                                  "seed_starts", "seed", s)
                    /\ HasItem(events, T, "transplants", "seed", s)
                    /\ seeds[s].days_to_maturity # None =>
                          HasItem(events, T + Val(seeds[s].days_to_maturity),
                                  "harvests", "seed", s)]_vars

\* the batches of user u that are in a status before the terminal ones
Awaited(u) ==
    {sl \in DOMAIN seedlings :
        /\ seedlings[sl].user_id = u
        /\ seedlings[sl].status \in {"germinating", "growing", "potted_up", "ready"}
        /\ seedlings[sl].expected_transplant_date # None}

\* C28: every batch in a non-terminal status with an expected transplant
\* date has a transplants event on that date, and a task among the upcoming
\* ones when the date is in the window.
C28_AwaitedBatchesAreShown ==
    [][\A u \in Users, today \in Todays, last_frost \in LastFrosts :
          CalendarStep(u, today, last_frost) =>
              LET events == Val(calc'.out).events
                  tasks == Val(calc'.out).upcoming_tasks
              IN  \A sl \in Awaited(u) :
                    LET date == Val(seedlings[sl].expected_transplant_date)
                    IN  /\ HasItem(events, date, "transplants", "seedling", sl)
                        /\ (today <= date /\ date <= today + 13) =>
                              \E i \in 1 .. Len(tasks) :
                                  tasks[i] = TaskOf(date, "transplants",
                                                    [name |-> seedlings[sl].seed_id])]_vars

\* C29: the planner and the calendar start a seed on the same date: the
\* seed_starts event of a seed lot is on the date get_seed_start_date
\* returns for an item of the lot that is not direct sown.
C29_PlannerAgreesWithCalendar ==
    [][\A u \in Users, today \in Todays, last_frost \in LastFrosts :
          CalendarStep(u, today, last_frost) =>
              \A s \in InStock(u) :
                  HasItem(Val(calc'.out).events,
                          get_seed_start_date([is_direct_sow |-> FALSE], seeds[s], last_frost),
                          "seed_starts", "seed", s)]_vars

(***************************************************************************)
(* Properties of the planner's date rule                                   *)
(***************************************************************************)
\* C24: get_seed_start_date returns last frost + 14 days for a direct sown
\* item, and otherwise last frost - 7 * w days, w the weeks_to_transplant of
\* the seed, 6 only when the seed has none.
C24_PlannerSeedStartDate ==
    Asked("get_seed_start_date") =>
        calc.out = Some(IF calc.is_direct_sow
                        THEN calc.date + 14
                        ELSE calc.date - 7 * (IF calc.weeks_to_transplant # None
                                              THEN Val(calc.weeks_to_transplant) ELSE 6))

(***************************************************************************)
(* Properties of the occupancy of the grow bags                            *)
(***************************************************************************)
\* the PlantRecords bound to grow bag b
BoundTo(b) == {p \in DOMAIN plants : plants[p].grow_bag_id = Some(b)}

\* C25: the current_plants of every grow bag is the number of PlantRecords
\* bound to it, and is never negative.
C25_OccupancyCountsBoundPlants ==
    \A b \in DOMAIN grow_bags :
        /\ grow_bags[b].current_plants = Cardinality(BoundTo(b))
        /\ grow_bags[b].current_plants >= 0

(***************************************************************************)
(* Properties of the plants drawn from a batch                             *)
(***************************************************************************)
\* the plants created from batch sl, in soil and hydroponic
CreatedFrom(sl) ==
    Cardinality(Referencing(plants, "seedling_id", Some(sl)))
    + Cardinality(Referencing(hydro_plants, "seedling_id", Some(sl)))

\* C26: the plants created from a batch are never more than the quantity
\* available in it before the first of them.  A batch of the garden is sown
\* with no viable count and is changed by consumptions only, so that
\* quantity is its quantity_started.
C26_PlantsConservedAgainstBatch ==
    \A sl \in DOMAIN seedlings : CreatedFrom(sl) <= seedlings[sl].quantity_started

\* the counts and the status of two batches are the same
SameCounts(x, y) ==
    /\ x.quantity_potted_up = y.quantity_potted_up
    /\ x.quantity_viable = y.quantity_viable
    /\ x.status = y.status

\* C27: consuming a and then b from a batch leaves the same
\* quantity_potted_up, quantity_viable and status as consuming b and then a.
C27_ConsumptionOrderIndependent ==
    \A sl \in DOMAIN seedlings, a \in PlantQuantities, b \in PlantQuantities,
       d \in TransplantDates :
        SameCounts(plant_add_consume(plant_add_consume(seedlings[sl], a, d), b, d),
                   plant_add_consume(plant_add_consume(seedlings[sl], b, d), a, d))

(***************************************************************************)
(* Properties of the harvest dates                                         *)
(***************************************************************************)
\* C30: the first harvest date of a plant is never after its last harvest
\* date, the dates of the harvests being given in any order.
C30_FirstHarvestNotAfterLast ==
    \A p \in DOMAIN plants :
        (plants[p].first_harvest_date # None /\ plants[p].last_harvest_date # None) =>
            Val(plants[p].first_harvest_date) <= Val(plants[p].last_harvest_date)

====
